---- MODULE Spec2Model ----
(***************************************************************************)
(* Model of src/src/lib.rs: the Python-callable function biot, which       *)
(* converts three nested current-density grids to dense arrays (convert),  *)
(* sums the Biot-Savart terms of every source point into every cell of     *)
(* the field arrays inside a parallel ndarray Zip (par_apply), writes a    *)
(* Jmol script of the field sampled at stride 3 (export_jmol) and returns  *)
(* the field.                                                              *)
(*                                                                         *)
(* f64 values are modelled in fixed point: a field value v is the integer  *)
(* v * Scale, division and square root truncate.  Coordinates and current  *)
(* densities of the inputs are small integers.  A Rust panic (unwrap,      *)
(* expect, index out of bounds, failed assertion) ends the call with       *)
(* result.tag = "panic".                                                   *)
(***************************************************************************)
EXTENDS Integers, Sequences, FiniteSets, TLC

VARIABLES
    jx_in, jy_in, jz_in,   \* the nested arguments jx, jy, jz of biot
    x_cor, y_cor, z_cor,   \* the coordinate axes
    poolSize,              \* worker threads of the rayon pool
    pc,                    \* position of the call in biot
    jx, jy, jz,            \* the converted current-density arrays
    b_x, b_y, b_z,         \* the field arrays
    task,                  \* per cell: the closure run of par_apply on that cell
    writers,               \* history: per cell, the tasks that wrote it
    order,                 \* history: per cell, the sources added, in order
    file,                  \* ./parallel.spt: created flag and lines written
    lengths,               \* export_jmol's lengths vector
    normalised,            \* history: export_jmol took the rescaling branch
    vizRead,               \* history: the field arrays export_jmol read
    ioFailed,              \* history: a file operation failed in this call
    result,                \* what the call gave its caller
    invocation,            \* 1 for the first call, 2 for the repeat, ...
    first                  \* result of the first call

inputs == <<jx_in, jy_in, jz_in, x_cor, y_cor, z_cor, poolSize>>
arrays == <<jx, jy, jz>>
field == <<b_x, b_y, b_z>>
viz == <<file, lengths, normalised, vizRead, ioFailed>>
vars == <<inputs, pc, arrays, field, task, writers, order, viz, result,
          invocation, first>>

(***************************************************************************)
(* Bounds of the model.                                                    *)
(***************************************************************************)
Scale == 1000
MaxWorkers == 2
MaxInvocations == 2

\* let step = 3;
Step == 3

(***************************************************************************)
(* f64 arithmetic, in fixed point.                                         *)
(***************************************************************************)
Abs(a) == IF a < 0 THEN -a ELSE a

\* a / b for b > 0, truncated toward zero
TDiv(a, b) == IF a >= 0 THEN a \div b ELSE -((-a) \div b)

RECURSIVE SqrtSearch(_, _, _)
SqrtSearch(n, lo, hi) ==
    IF hi - lo <= 1 THEN lo
    ELSE LET mid == (lo + hi) \div 2
         IN IF mid <= n \div mid THEN SqrtSearch(n, mid, hi)
                                 ELSE SqrtSearch(n, lo, mid)

\* the largest r with r * r <= n
ISqrt(n) == IF n <= 0 THEN 0 ELSE SqrtSearch(n, 1, n + 1)

\* a * b and a / b of two fixed-point values, sqrt of one
FMul(a, b) == TDiv(a * b, Scale)
FDiv(a, b) == TDiv(a * Scale, b)
FSqrt(a) == ISqrt(a * Scale)

(***************************************************************************)
(* Array3<f64>: a shape and the elements in row-major order.               *)
(***************************************************************************)
NoArray == [dim |-> <<0, 0, 0>>, data |-> <<>>]

Size(dim) == dim[1] * dim[2] * dim[3]

\* Array3::<f64>::zeros(dim)
Zeros(dim) == [dim |-> dim, data |-> [c \in 1..Size(dim) |-> 0]]

\* the index (i, j, k), zero-based, of the c-th element (c from 1)
Unflatten(c, dim) ==
    << (c - 1) \div (dim[2] * dim[3]),
       ((c - 1) \div dim[3]) % dim[2],
       (c - 1) % dim[3] >>

Offset(idx, dim) == (idx[1] * dim[2] + idx[2]) * dim[3] + idx[3] + 1

InBounds(a, idx) ==
    idx[1] < a.dim[1] /\ idx[2] < a.dim[2] /\ idx[3] < a.dim[3]

\* a[[i, j, k]], for an index in bounds
At(a, idx) == a.data[Offset(idx, a.dim)]

(***************************************************************************)
(* convert                                                                 *)
(***************************************************************************)
RECURSIVE Concat(_)
Concat(ss) == IF ss = <<>> THEN <<>> ELSE Head(ss) \o Concat(Tail(ss))

\* phi[0] and phi[0][0] panic on an empty vector; from_shape_vec is an Err,
\* and unwrap panics, when the element count is not the product of the shape
convert(phi) ==
    LET flattened == Concat(Concat(phi))
    IN IF Len(phi) = 0 THEN [ok |-> FALSE, arr |-> NoArray]
       ELSE IF Len(phi[1]) = 0 THEN [ok |-> FALSE, arr |-> NoArray]
       ELSE LET dim == <<Len(phi), Len(phi[1]), Len(phi[1][1])>>
            IN IF Size(dim) = Len(flattened)
               THEN [ok |-> TRUE, arr |-> [dim |-> dim, data |-> flattened]]
               ELSE [ok |-> FALSE, arr |-> NoArray]

(***************************************************************************)
(* The closure of par_apply: one run per cell of the field arrays.         *)
(***************************************************************************)
AxisDim == <<Len(x_cor), Len(y_cor), Len(z_cor)>>

\* number of source points the three nested loops visit
NQ == Size(AxisDim)

\* the loops nested the other way round: z outermost, x innermost
QIndexZOuter(k) ==
    << k % Len(x_cor),
       (k \div Len(x_cor)) % Len(y_cor),
       k \div (Len(x_cor) * Len(y_cor)) >>

\* the k-th source index (k from 0) of the loops over x_cor, y_cor, z_cor:
\* x outermost, z innermost
QIndex(k) ==
    << k \div (Len(y_cor) * Len(z_cor)),
       (k \div Len(z_cor)) % Len(y_cor),
       k % Len(z_cor) >>

\* array![x_cor[i], y_cor[j], z_cor[k]], for an index inside the axes
Position(idx) == <<x_cor[idx[1] + 1], y_cor[idx[2] + 1], z_cor[idx[3] + 1]>>

InAxes(idx) ==
    idx[1] < Len(x_cor) /\ idx[2] < Len(y_cor) /\ idx[3] < Len(z_cor)

\* r.norm_l2().powf(3.0), for r = b_r - r_mark
NormL2(r) == ISqrt((r[1] * r[1] + r[2] * r[2] + r[3] * r[3]) * Scale * Scale)

Pow3(n) == FMul(FMul(n, n), n)

R3(r) == Pow3(NormL2(r))

\* the terms with the sign of the x component flipped
CrossTermSwapped(r, j, r3) ==
    << FDiv((r[2] * j[3] - j[2] * r[3]) * Scale, r3),
       FDiv((r[1] * j[3] - j[1] * r[3]) * Scale, r3),
       FDiv((-r[1] * j[2] + j[1] * r[2]) * Scale, r3) >>

\* the three terms added to *result_x, *result_y, *result_z
CrossTerm(r, j, r3) ==
    << FDiv((-r[2] * j[3] + j[2] * r[3]) * Scale, r3),
       FDiv((r[1] * j[3] - j[1] * r[3]) * Scale, r3),
       FDiv((-r[1] * j[2] + j[1] * r[2]) * Scale, r3) >>

\* a threshold on r3 in place of the exact test
ExcludedNear(p, q, r3) == r3 <= Scale

\* if r3 != 0.0: the source is skipped when r3 is exactly zero
Excluded(p, q, r3) == r3 = 0

\* one accumulator cell shared by every run
ResultCellShared(idx, dim) == 1

\* the cell that result_x, result_y, result_z of the closure run on idx refer to
ResultCell(idx, dim) == Offset(idx, dim)

Cells == 1..Size(b_x.dim)

Running == {c \in Cells : task[c].st = "run"}

Panic == [tag |-> "panic", bx |-> <<>>, by |-> <<>>, bz |-> <<>>]

NoResult == [tag |-> "none", bx |-> <<>>, by |-> <<>>, bz |-> <<>>]

NoFile == [created |-> FALSE, lines |-> <<>>]

(***************************************************************************)
(* biot, lines 66-72: the three conversions and the zeroed field arrays.   *)
(***************************************************************************)
Convert ==
    /\ pc = "call"
    /\ LET cx == convert(jx_in)
           cy == convert(jy_in)
           cz == convert(jz_in)
       IN IF cx.ok /\ cy.ok /\ cz.ok
          THEN /\ jx' = cx.arr
               /\ jy' = cy.arr
               /\ jz' = cz.arr
               /\ b_x' = Zeros(cx.arr.dim)
               /\ b_y' = Zeros(cy.arr.dim)
               /\ b_z' = Zeros(cz.arr.dim)
               /\ pc' = "zip"
               /\ UNCHANGED result
          ELSE /\ pc' = "panicked"
               /\ result' = Panic
               /\ UNCHANGED <<arrays, field>>
    /\ UNCHANGED <<inputs, task, writers, order, viz, invocation, first>>

(***************************************************************************)
(* Lines 75-78: Zip::indexed(&mut b_x).and(&mut b_y).and(&mut b_z) asserts *)
(* that the three arrays have one shape; par_apply then splits the cells   *)
(* among the pool.                                                         *)
(***************************************************************************)
ZipBuild ==
    /\ pc = "zip"
    /\ IF b_y.dim = b_x.dim /\ b_z.dim = b_x.dim
       THEN /\ pc' = "par"
            /\ task' = [c \in Cells |-> [st |-> "idle", k |-> 0]]
            /\ writers' = [c \in Cells |-> {}]
            /\ order' = [c \in Cells |-> <<>>]
            /\ UNCHANGED result
       ELSE /\ pc' = "panicked"
            /\ result' = Panic
            /\ UNCHANGED <<task, writers, order>>
    /\ UNCHANGED <<inputs, arrays, field, viz, invocation, first>>

\* lines 79-83: a free worker takes cell c and builds b_r.  A pool of one
\* thread runs the halves par_apply splits the Zip into one after the other,
\* in index order; with more threads a half can be stolen at any time.
StartTask(c) ==
    /\ pc = "par"
    /\ task[c].st = "idle"
    /\ Cardinality(Running) < poolSize
    /\ poolSize = 1 => \A d \in Cells : d < c => task[d].st # "idle"
    /\ task' = [task EXCEPT ![c].st =
                   IF InAxes(Unflatten(c, b_x.dim)) THEN "run" ELSE "panic"]
    /\ UNCHANGED <<inputs, pc, arrays, field, writers, order, viz, result,
                   invocation, first>>

\* lines 85-103: one iteration of the innermost loop of the run on cell c
TaskStep(c) ==
    /\ pc = "par"
    /\ task[c].st = "run"
    /\ LET idx == Unflatten(c, b_x.dim)
           q == QIndex(task[c].k)
           last == task[c].k + 1 = NQ
       IN IF ~(InBounds(jx, q) /\ InBounds(jy, q) /\ InBounds(jz, q))
          THEN /\ task' = [task EXCEPT ![c].st = "panic"]
               /\ UNCHANGED <<field, writers, order>>
          ELSE LET b_r == Position(idx)
                   r_mark == Position(q)
                   r == <<b_r[1] - r_mark[1], b_r[2] - r_mark[2],
                          b_r[3] - r_mark[3]>>
                   r3 == R3(r)
                   j == <<At(jx, q), At(jy, q), At(jz, q)>>
                   w == ResultCell(idx, b_x.dim)
               IN /\ task' = [task EXCEPT ![c] =
                                 [st |-> IF last THEN "done" ELSE "run",
                                  k |-> task[c].k + 1]]
                  /\ IF Excluded(idx, q, r3)
                     THEN UNCHANGED <<field, writers, order>>
                     ELSE LET t == CrossTerm(r, j, r3)
                          IN /\ b_x' = [b_x EXCEPT !.data[w] = @ + t[1]]
                             /\ b_y' = [b_y EXCEPT !.data[w] = @ + t[2]]
                             /\ b_z' = [b_z EXCEPT !.data[w] = @ + t[3]]
                             /\ writers' = [writers EXCEPT ![w] = @ \cup {c}]
                             /\ order' = [order EXCEPT ![c] = Append(@, q)]
    /\ UNCHANGED <<inputs, pc, arrays, viz, result, invocation, first>>

\* a return as soon as one run has ended
ParApplyCompleteEarly == \E c \in Cells : task[c].st = "done"

\* line 104: par_apply returns when every run has ended; a panic of a run
\* is propagated to the caller of par_apply
ParApplyComplete == \A c \in Cells : task[c].st \in {"done", "panic"}

Join ==
    /\ pc = "par"
    /\ ParApplyComplete
    /\ IF \E c \in Cells : task[c].st = "panic"
       THEN /\ pc' = "panicked"
            /\ result' = Panic
       ELSE /\ pc' = "calc_done"
            /\ UNCHANGED result
    /\ UNCHANGED <<inputs, arrays, field, task, writers, order, viz,
                   invocation, first>>

(***************************************************************************)
(* export_jmol                                                             *)
(***************************************************************************)
Directive(text) == [text |-> text, args |-> <<>>]

Header ==
    << Directive("load \"file:$SCRIPT_PATH$/central_region.xyz\" \n"),
       Directive("write \"$SCRIPT_PATH$/central_region2.xyz\" \n"),
       Directive("load \"file:$SCRIPT_PATH$/central_region2.xyz\" \n") >>

Footer ==
    << Directive("set defaultdrawarrowscale 0.1 \n"),
       Directive("rotate 90 \n"),
       Directive("background white \n") >>

\* a stepping that yields index 0 before it tests the end of the axis
StepIdxAtLeastOne(n) ==
    [i \in 1..(IF n = 0 THEN 1 ELSE (n + Step - 1) \div Step) |->
        (i - 1) * Step]

\* the indices enumerate().step_by(step) yields on an axis of n elements
StepIdx(n) == [i \in 1..((n + Step - 1) \div Step) |-> (i - 1) * Step]

\* the sampled indices, in the order of the three nested loops
Samples ==
    LET sx == StepIdx(Len(x_cor))
        sy == StepIdx(Len(y_cor))
        sz == StepIdx(Len(z_cor))
        sdim == <<Len(sx), Len(sy), Len(sz)>>
    IN [s \in 1..Size(sdim) |->
           LET u == Unflatten(s, sdim)
           IN <<sx[u[1] + 1], sy[u[2] + 1], sz[u[3] + 1]>>]

\* lines 147-150: the norm of the field at a sampled index
Magnitude(bx, by, bz, idx) ==
    FSqrt(FMul(At(bx, idx), At(bx, idx)) + FMul(At(by, idx), At(by, idx))
          + FMul(At(bz, idx), At(bz, idx)))

NaN == [nan |-> TRUE, v |-> 0]

Num(v) == [nan |-> FALSE, v |-> v]

\* lengths.iter().cloned().fold(f64::NAN, f64::max): f64::max(NAN, x) = x
FoldMax(s) ==
    IF s = <<>> THEN NaN
    ELSE Num(CHOOSE m \in {s[i] : i \in DOMAIN s} :
                 \A i \in DOMAIN s : s[i] <= m)

FoldMin(s) ==
    IF s = <<>> THEN NaN
    ELSE Num(CHOOSE m \in {s[i] : i \in DOMAIN s} :
                 \A i \in DOMAIN s : m <= s[i])

\* &max == &min on f64: NaN equals nothing
FEq(a, b) == ~a.nan /\ ~b.nan /\ a.v = b.v

\* a rescaling by max in place of max - min
RescaleByMax(x, min, max) == FDiv(x - min, max)

\* (x - min) as f64 / (max - min) as f64
Rescale(x, min, max) == FDiv(x - min, max - min)

\* lines 159-166: if &max == &min the lengths stay as they are
SkipRescale(ls) == FEq(FoldMax(ls), FoldMin(ls))

Normalize(ls) ==
    LET max == FoldMax(ls)
        min == FoldMin(ls)
    IN IF SkipRescale(ls) THEN ls
       ELSE [s \in DOMAIN ls |-> Rescale(ls[s], min.v, max.v)]

\* lines 171-183: the directive of the s-th sampled point
Arrow(s, ls) ==
    LET idx == Samples[s]
        pos == Position(idx)
    IN [text |-> "draw arrow",
        args |-> << s - 1, ls[s],
                    pos[1] * Scale - At(b_x, idx),
                    pos[2] * Scale - At(b_y, idx),
                    pos[3] * Scale - At(b_z, idx),
                    pos[1] * Scale + At(b_x, idx),
                    pos[2] * Scale + At(b_y, idx),
                    pos[3] * Scale + At(b_z, idx) >>]

\* lines 134-135: File::create(&path).expect(..)
ExportCreate ==
    /\ pc = "calc_done"
    /\ \E created \in BOOLEAN :
           IF created
           THEN /\ file' = [created |-> TRUE, lines |-> <<>>]
                /\ pc' = "viz_header"
                /\ UNCHANGED <<ioFailed, result>>
           ELSE /\ ioFailed' = TRUE
                /\ pc' = "panicked"
                /\ result' = Panic
                /\ UNCHANGED file
    /\ UNCHANGED <<inputs, arrays, field, task, writers, order, lengths,
                   normalised, vizRead, invocation, first>>

\* lines 139-141: three write!(..).unwrap(); the first n succeed
ExportHeader ==
    /\ pc = "viz_header"
    /\ \E n \in 0..Len(Header) :
           /\ file' = [file EXCEPT !.lines = @ \o SubSeq(Header, 1, n)]
           /\ IF n = Len(Header)
              THEN /\ pc' = "viz_lengths"
                   /\ UNCHANGED <<ioFailed, result>>
              ELSE /\ ioFailed' = TRUE
                   /\ pc' = "panicked"
                   /\ result' = Panic
    /\ UNCHANGED <<inputs, arrays, field, task, writers, order, lengths,
                   normalised, vizRead, invocation, first>>

\* lines 143-166: the magnitudes of the sampled points, rescaled unless
\* max == min; bx[[ix, iy, iz]] panics outside the array
ExportLengths ==
    /\ pc = "viz_lengths"
    /\ vizRead' = <<b_x, b_y, b_z>>
    /\ IF \A s \in DOMAIN Samples : InBounds(b_x, Samples[s])
       THEN LET raw == [s \in DOMAIN Samples |->
                           Magnitude(b_x, b_y, b_z, Samples[s])]
            IN /\ lengths' = Normalize(raw)
               /\ normalised' = ~SkipRescale(raw)
               /\ pc' = "viz_arrows"
               /\ UNCHANGED result
       ELSE /\ pc' = "panicked"
            /\ result' = Panic
            /\ UNCHANGED <<lengths, normalised>>
    /\ UNCHANGED <<inputs, arrays, field, task, writers, order, file,
                   ioFailed, invocation, first>>

\* lines 168-187: one write!(..).expect(..) per sampled point; the first n
\* succeed
ExportArrows ==
    /\ pc = "viz_arrows"
    /\ \E n \in 0..Len(Samples) :
           /\ file' = [file EXCEPT !.lines =
                          @ \o [s \in 1..n |-> Arrow(s, lengths)]]
           /\ IF n = Len(Samples)
              THEN /\ pc' = "viz_footer"
                   /\ UNCHANGED <<ioFailed, result>>
              ELSE /\ ioFailed' = TRUE
                   /\ pc' = "panicked"
                   /\ result' = Panic
    /\ UNCHANGED <<inputs, arrays, field, task, writers, order, lengths,
                   normalised, vizRead, invocation, first>>

\* lines 189-192: three write!(..).unwrap(); export_jmol returns
ExportFooter ==
    /\ pc = "viz_footer"
    /\ \E n \in 0..Len(Footer) :
           /\ file' = [file EXCEPT !.lines = @ \o SubSeq(Footer, 1, n)]
           /\ IF n = Len(Footer)
              THEN /\ pc' = "viz_done"
                   /\ UNCHANGED <<ioFailed, result>>
              ELSE /\ ioFailed' = TRUE
                   /\ pc' = "panicked"
                   /\ result' = Panic
    /\ UNCHANGED <<inputs, arrays, field, task, writers, order, lengths,
                   normalised, vizRead, invocation, first>>

\* line 123: Ok((b_x.into_raw_vec(), b_y.into_raw_vec(), b_z.into_raw_vec()))
Return ==
    /\ pc = "viz_done"
    /\ pc' = "returned"
    /\ result' = [tag |-> "ok", bx |-> b_x.data, by |-> b_y.data,
                  bz |-> b_z.data]
    /\ UNCHANGED <<inputs, arrays, field, task, writers, order, viz,
                   invocation, first>>

(***************************************************************************)
(* The caller calls biot again with the same arguments.                    *)
(***************************************************************************)
Reinvoke ==
    /\ pc \in {"returned", "panicked"}
    /\ invocation < MaxInvocations
    /\ invocation' = invocation + 1
    /\ first' = IF invocation = 1 THEN result ELSE first
    /\ pc' = "call"
    /\ jx' = NoArray /\ jy' = NoArray /\ jz' = NoArray
    /\ b_x' = NoArray /\ b_y' = NoArray /\ b_z' = NoArray
    /\ task' = <<>> /\ writers' = <<>> /\ order' = <<>>
    /\ file' = NoFile /\ lengths' = <<>> /\ normalised' = FALSE
    /\ vizRead' = <<NoArray, NoArray, NoArray>> /\ ioFailed' = FALSE
    /\ result' = NoResult
    /\ UNCHANGED inputs

Next ==
    \/ Convert
    \/ ZipBuild
    \/ \E c \in Cells : StartTask(c)
    \/ \E c \in Cells : TaskStep(c)
    \/ Join
    \/ ExportCreate
    \/ ExportHeader
    \/ ExportLengths
    \/ ExportArrows
    \/ ExportFooter
    \/ Return
    \/ Reinvoke

(***************************************************************************)
(* Initial states: a call of biot with its arguments, before line 66.      *)
(***************************************************************************)
MaxNest == 2

\* the rectangular nested vectors of shape dim with elements in vals
Rect(dim, vals) == [1..dim[1] -> [1..dim[2] -> [1..dim[3] -> vals]]]

\* every nested vector whose levels have at most MaxNest elements
Rows == UNION {[1..n -> {1}] : n \in 0..MaxNest}
Planes == UNION {[1..n -> Rows] : n \in 0..MaxNest}
Nested == UNION {[1..n -> Planes] : n \in 0..MaxNest}

Start ==
    /\ pc = "call"
    /\ jx = NoArray /\ jy = NoArray /\ jz = NoArray
    /\ b_x = NoArray /\ b_y = NoArray /\ b_z = NoArray
    /\ task = <<>> /\ writers = <<>> /\ order = <<>>
    /\ file = NoFile /\ lengths = <<>> /\ normalised = FALSE
    /\ vizRead = <<NoArray, NoArray, NoArray>> /\ ioFailed = FALSE
    /\ result = NoResult
    /\ invocation = 1
    /\ first = NoResult

\* grids of one, two and four cells in the x-y plane, each current-density
\* array of any of these shapes, axes of one or two planes, a pool of up to
\* MaxWorkers threads
PlaneShapes == {<<1, 1, 1>>, <<2, 1, 1>>, <<2, 2, 1>>}

Init ==
    /\ jx_in \in UNION {Rect(d, {0}) : d \in PlaneShapes}
    /\ jy_in \in UNION {Rect(d, {0}) \cup Rect(d, {1}) : d \in PlaneShapes}
    /\ jz_in \in UNION {Rect(d, {0}) : d \in PlaneShapes}
    /\ x_cor \in {<<0>>, <<0, 1>>, <<0, 1, 2>>}
    /\ y_cor \in {<<0>>, <<0, 1>>}
    /\ z_cor = <<0>>
    /\ poolSize \in 1..MaxWorkers
    /\ Start

Spec == Init /\ [][Next]_vars

\* the axis 0, 1, .. of n planes
Axis(n) == [i \in 1..n |-> i - 1]

\* any nested vector as jx, jy and jz, with axes as long as the vector, its
\* first sublist and the first sublist of that are
InitConvert ==
    /\ jx_in \in Nested
    /\ jy_in = jx_in
    /\ jz_in = jx_in
    /\ x_cor = Axis(Len(jx_in))
    /\ y_cor = Axis(IF jx_in = <<>> THEN 0 ELSE Len(jx_in[1]))
    /\ z_cor = Axis(IF jx_in = <<>> \/ jx_in[1] = <<>> THEN 0
                    ELSE Len(jx_in[1][1]))
    /\ poolSize = 1
    /\ Start

SpecConvert == InitConvert /\ [][Next]_vars

\* a 2 x 2 x 2 grid: no current, one current at one cell, or two unit
\* currents; the x axis is {0, 1} or has a repeated coordinate
OneAt(c, v) == [i \in 1..2 |-> [j \in 1..2 |-> [k \in 1..2 |->
                   IF Offset(<<i - 1, j - 1, k - 1>>, <<2, 2, 2>>) = c
                   THEN v ELSE 0]]]

SourceVectors == {<<1, 0, 0>>, <<0, 1, 0>>, <<0, 0, 1>>, <<1, 1, 0>>}

InitSolve ==
    /\ \/ \E c \in 1..8, v \in SourceVectors \cup {<<0, 0, 0>>} :
             /\ jx_in = OneAt(c, v[1])
             /\ jy_in = OneAt(c, v[2])
             /\ jz_in = OneAt(c, v[3])
       \/ /\ jx_in \in {g \in Rect(<<2, 2, 2>>, {0, 1}) :
                           Cardinality({c \in 1..8 :
                               Concat(Concat(g))[c] = 1}) = 2}
          /\ jy_in = OneAt(1, 0)
          /\ jz_in = OneAt(1, 0)
    /\ x_cor \in {<<0, 1>>, <<0, 0>>}
    /\ y_cor = <<0, 1>>
    /\ z_cor = <<0, 1>>
    /\ poolSize = 1
    /\ Start

SpecSolve == InitSolve /\ [][Next]_vars

\* grids the visualizer samples: 4 x 1 x 1 (two sampled points), one cell
\* (one sampled point) and grids with no cell
InitExport ==
    /\ \/ /\ jx_in \in Rect(<<4, 1, 1>>, {0})
          /\ jy_in \in Rect(<<4, 1, 1>>, {0, 1})
          /\ jz_in \in Rect(<<4, 1, 1>>, {0})
          /\ x_cor = <<0, 1, 2, 3>>
          /\ z_cor = <<0>>
       \/ /\ jx_in \in Rect(<<1, 1, 0>>, {0}) \cup Rect(<<2, 1, 0>>, {0})
                        \cup Rect(<<1, 1, 1>>, {0})
          /\ jy_in = jx_in
          /\ jz_in = jx_in
          /\ x_cor \in {<<0>>, <<0, 1, 2, 3>>}
          /\ z_cor \in {<<>>, <<0>>}
    /\ y_cor = <<0>>
    /\ poolSize = 1
    /\ Start

SpecExport == InitExport /\ [][Next]_vars

(***************************************************************************)
(* Properties.                                                             *)
(***************************************************************************)
Terminal == {"returned", "panicked"}

VizPhases == {"viz_header", "viz_lengths", "viz_arrows", "viz_footer",
              "viz_done", "returned"}

\* the shape of a rectangular nested vector
ShapeOf(phi) == <<Len(phi), Len(phi[1]), Len(phi[1][1])>>

\* cell w has a source point at another position
HasOtherSource(w) ==
    \E k \in 0..(NQ - 1) :
        Position(QIndex(k)) # Position(Unflatten(w, b_x.dim))

\* C1: in the parallel region every cell of Bx, By, Bz is written by the task
\* that owns it and by no other task, whatever the interleaving, and by that
\* task indeed once the region is over; the steps of the tasks leave the
\* current-density arrays and the axes as they are.
C1_OneWriterPerCell ==
    /\ [](\A w \in DOMAIN writers : writers[w] \subseteq {w})
    /\ [](pc = "calc_done" =>
            \A w \in DOMAIN writers : HasOtherSource(w) => writers[w] = {w})
    /\ [][(\E c \in Cells : StartTask(c) \/ TaskStep(c))
             => UNCHANGED <<inputs, arrays>>]_vars

\* two tasks are running at once and each has written its cell
C1_Witness ==
    /\ pc = "par"
    /\ \E c, d \in Cells :
           /\ c # d
           /\ task[c].st = "run" /\ task[d].st = "run"
           /\ writers[c] = {c} /\ writers[d] = {d}

LexLess(a, b) ==
    \/ a[1] < b[1]
    \/ a[1] = b[1] /\ a[2] < b[2]
    \/ a[1] = b[1] /\ a[2] = b[2] /\ a[3] < b[3]

\* C2: a second call with the same arguments returns the arrays the first
\* call returned, whatever the schedules of the two calls, and every task
\* adds its source points in x-outer, y-middle, z-inner order.
C2_Deterministic ==
    /\ (invocation > 1 /\ pc = "returned" /\ first.tag = "ok") =>
           result = first
    /\ \A c \in DOMAIN order :
           \A i, j \in DOMAIN order[c] :
               i < j => LexLess(order[c][i], order[c][j])

\* the second call of a four-cell grid with a current returned a field
C2_Witness ==
    /\ invocation > 1 /\ pc = "returned" /\ first.tag = "ok"
    /\ poolSize > 1
    /\ Len(result.bz) = 4
    /\ \E c \in DOMAIN result.bz : result.bz[c] # 0

\* C10: export_jmol starts only when every task of par_apply has finished;
\* from then on until the call returns no cell of Bx, By, Bz changes, and
\* the arrays returned are the arrays export_jmol read.
C10_VizAfterBarrier ==
    /\ [](pc \in VizPhases => \A c \in Cells : task[c].st = "done")
    /\ [][ExportCreate => \A c \in Cells : task[c].st = "done"]_vars
    /\ [][(pc \in VizPhases /\ pc' \in VizPhases) => UNCHANGED field]_vars
    /\ [](pc = "returned" =>
            /\ result.bx = vizRead[1].data
            /\ result.by = vizRead[2].data
            /\ result.bz = vizRead[3].data)

\* a call on a grid of four cells returned a field that is not zero
C10_Witness ==
    /\ pc = "returned"
    /\ poolSize > 1
    /\ Cardinality(Cells) = 4
    /\ \E c \in Cells : vizRead[3].data[c] # 0

\* the arguments break the shape invariant of the current-density field
ShapeInconsistent ==
    \/ ShapeOf(jx_in) # AxisDim
    \/ ShapeOf(jy_in) # ShapeOf(jx_in)
    \/ ShapeOf(jz_in) # ShapeOf(jx_in)

\* C4: when the shape of the current-density arrays is not (len(x_cor),
\* len(y_cor), len(z_cor)), or Jx, Jy, Jz differ in shape, biot reports
\* AxisShapeInconsistency before any evaluation point is computed: no task
\* has started, no cell has been written, and the call ends with that error.
C4_FailsFastOnShapes ==
    ShapeInconsistent =>
        /\ \A c \in DOMAIN task : task[c].st = "idle"
        /\ \A w \in DOMAIN writers : writers[w] = {}
        /\ pc \in Terminal => result.tag = "AxisShapeInconsistency"

\* C7: when the script file cannot be created or a write to it fails, biot
\* still returns the field it computed.
C7_FieldSurvivesIOFailure ==
    (ioFailed /\ pc \in Terminal) =>
        result = [tag |-> "ok", bx |-> b_x.data, by |-> b_y.data,
                  bz |-> b_z.data]

\* some first-level or second-level sublist of phi is longer or shorter than
\* one of its siblings
Ragged(phi) ==
    \/ \E i, j \in DOMAIN phi : Len(phi[i]) # Len(phi[j])
    \/ \E i, j \in DOMAIN phi :
           \E k \in DOMAIN phi[i], l \in DOMAIN phi[j] :
               Len(phi[i][k]) # Len(phi[j][l])

\* C3: convert fails with ShapeMismatch on every ragged nested input, as an
\* error given to the caller, and no field computation is performed; a
\* ragged input is never accepted.
C3_RaggedRejected ==
    (Ragged(jx_in) /\ pc # "call") =>
        /\ result.tag = "ShapeMismatch"
        /\ jx = NoArray
        /\ b_x = NoArray
        /\ task = <<>>

Zero3 == <<0, 0, 0>>

\* the indices of the grid, and the current density and the field at one
GridIdx == {Unflatten(c, b_x.dim) : c \in Cells}

JAt(q) == <<At(jx, q), At(jy, q), At(jz, q)>>

BAt(p) == <<At(b_x, p), At(b_y, p), At(b_z, p)>>

Minus(a, b) == <<a[1] - b[1], a[2] - b[2], a[3] - b[3]>>

\* the cross product j x r
Cross(j, r) ==
    << j[2] * r[3] - j[3] * r[2],
       j[3] * r[1] - j[1] * r[3],
       j[1] * r[2] - j[2] * r[1] >>

\* the current density is nonzero at p and nowhere else
OnlySourceAt(p) ==
    /\ JAt(p) # Zero3
    /\ \A q \in GridIdx \ {p} : JAt(q) = Zero3

Range(s) == {s[i] : i \in DOMAIN s}

\* C5 as stated: for a current density nonzero at exactly one grid point p
\* the solver skips the source p when it evaluates at p, so B(p) = 0, and
\* the field at every other grid point is nonzero.
C5_NonzeroEverywhereElse ==
    pc = "returned" =>
        \A p \in GridIdx :
            OnlySourceAt(p) =>
                /\ p \notin Range(order[Offset(p, b_x.dim)])
                /\ BAt(p) = Zero3
                /\ \A q \in GridIdx \ {p} : BAt(q) # Zero3

\* C5 as amended: for a current density nonzero at exactly one grid point p
\* the solver skips the source p when it evaluates at p, so B(p) = 0, and
\* the field at another grid point q is nonzero exactly when
\* J(p) x (r_q - r_p) is nonzero: it is zero where q has the position of p
\* and where q is displaced from p along the direction of J(p).
C5_NonzeroOffAxis ==
    pc = "returned" =>
        \A p \in GridIdx :
            OnlySourceAt(p) =>
                /\ p \notin Range(order[Offset(p, b_x.dim)])
                /\ BAt(p) = Zero3
                /\ \A q \in GridIdx \ {p} :
                       BAt(q) # Zero3 <=>
                           Cross(JAt(p), Minus(Position(q), Position(p)))
                               # Zero3

\* one source; the field is zero at one other point and nonzero at another
C5_Witness ==
    /\ pc = "returned"
    /\ \E p \in GridIdx :
           /\ OnlySourceAt(p)
           /\ \E q \in GridIdx \ {p} : BAt(q) = Zero3
           /\ \E q \in GridIdx \ {p} : BAt(q) # Zero3

\* the term of source q in B(p): J(q) x (r_p - r_q) / |r_p - r_q|^3
BiotSavartTerm(p, q) ==
    LET r == Minus(Position(p), Position(q))
        c == Cross(JAt(q), r)
    IN <<FDiv(c[1] * Scale, R3(r)), FDiv(c[2] * Scale, R3(r)),
         FDiv(c[3] * Scale, R3(r))>>

RECURSIVE BiotSavartSum(_, _)
BiotSavartSum(p, qs) ==
    IF qs = {} THEN Zero3
    ELSE LET q == CHOOSE x \in qs : TRUE
             t == BiotSavartTerm(p, q)
             rest == BiotSavartSum(p, qs \ {q})
         IN <<t[1] + rest[1], t[2] + rest[2], t[3] + rest[3]>>

\* the source points whose position differs from that of p
SourcesOf(p) ==
    {q \in (0..(Len(x_cor) - 1)) \X (0..(Len(y_cor) - 1))
               \X (0..(Len(z_cor) - 1)) : Position(q) # Position(p)}

\* the 2 x 2 x 2 grid with axes {0, 1} and a unit Jx at cell (0, 0, 0)
UnitJxAtOrigin ==
    /\ x_cor = <<0, 1>> /\ y_cor = <<0, 1>> /\ z_cor = <<0, 1>>
    /\ jx_in = OneAt(1, 1) /\ jy_in = OneAt(1, 0) /\ jz_in = OneAt(1, 0)

\* (0, -1, 1) / 3^(3/2), to one part in a hundred
IsExampleField(b) ==
    /\ b[1] = 0
    /\ b[2] < 0
    /\ b[3] = -b[2]
    /\ Abs(27 * b[2] * b[2] - Scale * Scale) * 100 <= Scale * Scale

\* C6: B(p) is the sum, over exactly the source points q at another
\* position than p, of J(q) x (r_p - r_q) / |r_p - r_q|^3; a unit Jx at
\* cell (0,0,0) of the 2 x 2 x 2 grid with axes {0, 1} gives
\* (0, -1, 1) / 3^(3/2) at cell (1,1,1); no current gives no field.
C6_BiotSavartSum ==
    pc = "returned" =>
        /\ \A p \in GridIdx : BAt(p) = BiotSavartSum(p, SourcesOf(p))
        /\ UnitJxAtOrigin => IsExampleField(BAt(<<1, 1, 1>>))
        /\ (\A q \in GridIdx : JAt(q) = Zero3) =>
               \A p \in GridIdx : BAt(p) = Zero3

\* the call on the example grid returned the example field
C6_Witness ==
    /\ pc = "returned"
    /\ UnitJxAtOrigin
    /\ IsExampleField(BAt(<<1, 1, 1>>))

\* C8: a call that reaches export_jmol with an empty axis, so with no
\* sampled point, and whose file operations succeed does not panic: the
\* file gets the three header directives, no arrow and the three footer
\* directives, and the call returns its result.
C8_NoSamplesNoCrash ==
    (file.created /\ ~ioFailed
         /\ (x_cor = <<>> \/ y_cor = <<>> \/ z_cor = <<>>)) =>
        /\ pc # "panicked"
        /\ pc \in {"viz_done", "returned"} => file.lines = Header \o Footer
        /\ pc = "returned" => result.tag = "ok"

\* such a call returned
C8_Witness ==
    /\ pc = "returned"
    /\ z_cor = <<>>
    /\ file.lines = Header \o Footer
    /\ result.tag = "ok"

\* the magnitude of the field export_jmol read at the s-th sampled point, and
\* the diameter of the s-th arrow of the file
MagOf(s) == Magnitude(vizRead[1], vizRead[2], vizRead[3], Samples[s])

Mags == {MagOf(s) : s \in DOMAIN Samples}

MinMag == CHOOSE m \in Mags : \A x \in Mags : m <= x

MaxMag == CHOOSE m \in Mags : \A x \in Mags : x <= m

Diam(s) == file.lines[Len(Header) + s].args[2]

\* C9: when the sampled magnitudes are all equal every arrow diameter is
\* the magnitude of its point and nothing is divided by max - min;
\* otherwise every diameter is (m - min) / (max - min), in [0, 1], 0 for
\* the least magnitude and 1 for the greatest.
C9_Diameters ==
    (pc \in {"viz_footer", "viz_done", "returned"} /\ Samples # <<>>) =>
        IF MinMag = MaxMag
        THEN /\ ~normalised
             /\ \A s \in DOMAIN Samples : Diam(s) = MagOf(s)
        ELSE /\ normalised
             /\ \A s \in DOMAIN Samples :
                    /\ Diam(s) = TDiv((MagOf(s) - MinMag) * Scale,
                                      MaxMag - MinMag)
                    /\ 0 <= Diam(s) /\ Diam(s) <= Scale
                    /\ MagOf(s) = MinMag => Diam(s) = 0
                    /\ MagOf(s) = MaxMag => Diam(s) = Scale

\* two sampled points of different magnitudes, neither zero, were rescaled
C9_Witness ==
    /\ pc = "returned"
    /\ Len(Samples) = 2
    /\ normalised
    /\ MinMag > 0
    /\ \E s \in DOMAIN Samples : Diam(s) = 0
    /\ \E s \in DOMAIN Samples : Diam(s) = Scale

====
